---- MODULE Spec2Model ----
(***************************************************************************)
(* A model of the eudore standard logger (loggerStd / entryStd) and of its *)
(* rotating file writer (syncWriterRotate).                                *)
(*                                                                         *)
(* Byte strings are sequences of one-character strings.  The token "BIG"   *)
(* stands for a run of BigLen bytes 'x' and the token "T" for the          *)
(* timestamp text produced by time.Now().Format(timeformat).               *)
(***************************************************************************)
EXTENDS Integers, Sequences, FiniteSets, TLC

(***************************************************************************)
(* Bounds of the model.                                                    *)
(***************************************************************************)
\* number of entryStd instances that can be alive at once
MaxEntries == 3
\* number of user fields one entry accumulates
MaxFields == 1
\* concurrent callers (goroutines)
Procs == {1, 2}
\* lines the rotating writer's caller writes beyond those that fill one segment
ExtraLines == 2
\* os.OpenFile calls that fail
MaxFails == 1
\* the wall clock, in ticks, and the ticks that make an hour
MaxNow == 3
TicksPerHour == 2
\* the highest index a segment file name takes
MaxIndex == 3

(***************************************************************************)
(* Program constants.                                                      *)
(***************************************************************************)
\* make([]byte, 0, 2048)
DataCap == 2048
\* logdepath := 4
LogDepth == 4
\* 0x40, the caller-capture offset
DepthOff == 64
\* length of the long string value used in fields: one byte more than a fresh
\* entry's buffer holds
BigLen == DataCap + 1

\* LoggerLevel values
LevelDebug == 0
LevelInfo == 1
LevelWarning == 2
LevelError == 3
LevelFatal == 4
LoggerLevels == LevelDebug .. LevelFatal

levels ==
  << <<"D","E","B","U","G">>,
     <<"I","N","F","O">>,
     <<"W","A","R","I","R","N","G">>,
     <<"E","R","R","O","R">>,
     <<"F","A","T","A","L">> >>

part1 == <<"{", "\"", "t", "i", "m", "e", "\"", ":", "\"">>
part2 == <<"\"", ",", "\"", "l", "e", "v", "e", "l", "\"", ":", "\"">>
part3 == <<"\"", ",", "\"", "f", "i", "e", "l", "d", "s", "\"", ":", "{">>
part4 == <<"\"">>
part5 == <<",", "\"", "m", "e", "s", "s", "a", "g", "e", "\"", ":", "\"">>
part6 == <<"\"", "}", "\n">>
part7 == <<"}", "\n">>

\* bytes of a Write call in the middle of a line written to the rotating writer:
\* as many as the shortest line has
MidLen == Len(part1) + 1

(***************************************************************************)
(* Byte helpers.                                                           *)
(***************************************************************************)
\* len(b) in bytes
ByteLen(b) == Len(b) + (BigLen - 1) * Cardinality({i \in DOMAIN b : b[i] = "BIG"})

Max(a, b) == IF a >= b THEN a ELSE b

\* capacity of a slice after append made it `need` bytes long (runtime growslice:
\* unchanged while the bytes fit, otherwise at least `need`)
GrowCap(cap, need) == IF need <= cap THEN cap ELSE Max(need, 2 * cap)

\* strconv.AppendInt(_, n, 10)
RECURSIVE Digits(_)
Digits(n) ==
  IF n < 0 THEN <<"-">> \o Digits(-n)
  ELSE IF n < 10 THEN <<SubSeq(<<"0","1","2","3","4","5","6","7","8","9">>, n + 1, n + 1)[1]>>
  ELSE Digits(n \div 10) \o Digits(n % 10)

\* tryAddRuneSelf / tryAddRuneError for one input character.  "CTL" is a control
\* byte below 0x20 other than \n \r \t, "BAD" a byte that is no valid UTF-8.
EscapeChar(c) ==
  CASE c = "\\" -> <<"\\", "\\">>
    [] c = "\"" -> <<"\\", "\"">>
    [] c = "\n" -> <<"\\", "n">>
    [] c = "\r" -> <<"\\", "r">>
    [] c = "\t" -> <<"\\", "t">>
    [] c = "CTL" -> <<"\\", "u", "0", "0", "0", "1">>
    [] c = "BAD" -> <<"\\", "u", "f", "f", "f", "d">>
    [] OTHER -> <<c>>

\* the bytes writeString appends for s
RECURSIVE writeString(_)
writeString(s) ==
  IF s = <<>> THEN <<>> ELSE EscapeChar(Head(s)) \o writeString(Tail(s))

(***************************************************************************)
(* Values handed to WithField.                                             *)
(***************************************************************************)
IntVal(n) == [kind |-> "int", v |-> n]
StrVal(s) == [kind |-> "string", v |-> s]
TimeVal(t) == [kind |-> "time", v |-> t]
NilVal == [kind |-> "invalid", v |-> 0]
\* a string of BigLen bytes 'x'
BigVal == [kind |-> "string", v |-> <<"BIG">>]

\* a slice of the values elems, and a map iterated in the order of pairs
SliceVal(elems) == [kind |-> "slice", v |-> elems]
MapVal(pairs) == [kind |-> "map", v |-> pairs]

\* `entry.data[len(entry.data)-1] = c` on the bytes b appended so far
SetLast(b, c) == [b EXCEPT ![Len(b)] = c]

RECURSIVE writeReflect(_)
RECURSIVE writeElems(_)
RECURSIVE writePairs(_)

\* the loop over the elements of an array or slice: each value, then ','
writeElems(elems) ==
  IF elems = <<>> THEN <<>>
  ELSE writeReflect(Head(elems)) \o <<",">> \o writeElems(Tail(elems))

\* the loop over the keys of a map: key ':' value ','
writePairs(pairs) ==
  IF pairs = <<>> THEN <<>>
  ELSE writeReflect(Head(pairs)[1]) \o <<":">> \o writeReflect(Head(pairs)[2]) \o <<",">>
       \o writePairs(Tail(pairs))

\* the bytes WriteValue / writeReflect append for value v
writeReflect(v) ==
  CASE v.kind = "invalid" -> <<"\"", "\"">>
    [] v.kind = "int" -> Digits(v.v)
    [] v.kind = "string" -> <<"\"">> \o writeString(v.v) \o <<"\"">>
    \* a time.Time implements json.Marshaler: quoted, escaped marshalled text
    [] v.kind = "time" -> <<"\"">> \o writeString(<<"\"", v.v, "\"">>) \o <<"\"">>
    \* '[', a ',' if there is no element, the elements; the last byte becomes ']'
    [] v.kind = "slice" ->
         SetLast(<<"[">> \o (IF v.v = <<>> THEN <<",">> ELSE <<>>) \o writeElems(v.v), "]")
    \* '{', the pairs; the last byte, the '{' itself of an empty map, becomes '}'
    [] v.kind = "map" -> SetLast(<<"{">> \o writePairs(v.v), "}")

(***************************************************************************)
(* entryStd.  The record holds the fields of the struct that vary: level,  *)
(* time, message, data (with its capacity), depth and logout; logger and   *)
(* timeformat are the same for every entry of one logger.                  *)
(***************************************************************************)
\* the entry Pool.New builds
NewEntry(fileline) ==
  [level |-> LevelDebug, time |-> "zero", message |-> <<>>, data |-> <<>>,
   cap |-> DataCap, depth |-> IF fileline THEN LogDepth ELSE LogDepth - DepthOff,
   logout |-> FALSE]

\* entry.data = append(entry.data, b...)
Append_data(e, b) ==
  [e EXCEPT !.data = @ \o b, !.cap = GrowCap(@, ByteLen(e.data \o b))]

\* newentry.data[:len(entry.data)] panics when the length exceeds cap(newentry.data)
getEntryPanics(entry, newentry) ==
  entry.data # <<>> /\ ByteLen(entry.data) > newentry.cap

\* getEntry on template `entry`, given the entry Pool.Get returned and the
\* value read from logger.Level
getEntry(entry, newentry, lvl) ==
  [newentry EXCEPT
     !.time = "now",
     !.level = lvl,
     !.depth = entry.depth,
     !.data = IF entry.data # <<>> THEN entry.data ELSE @]

\* the tail of WithField: "key":value,
AppendFieldNoSep(e, key, value) ==
  Append_data(e, <<"\"">> \o key \o <<"\"", ":">> \o writeReflect(value))
AppendField(e, key, value) ==
  Append_data(e, <<"\"">> \o key \o <<"\"", ":">> \o writeReflect(value) \o <<",">>)

\* WithField on an entry that is not a template (after the fork, if any)
WithFieldEntry(e, key, value) ==
  IF key = <<"d","e","p","t","h">> /\ value.kind = "int"
    THEN [e EXCEPT !.depth = @ + value.v]
  ELSE IF key = <<"d","e","p","t","h">> /\ value.kind = "string"
    THEN IF value.v = <<"e","n","a","b","l","e">> /\ e.depth < 0
           THEN [e EXCEPT !.depth = @ + DepthOff]
         ELSE IF value.v = <<"d","i","s","a","b","l","e">> /\ e.depth > 0
           THEN [e EXCEPT !.depth = @ - DepthOff]
         ELSE e
  ELSE IF key = <<"t","i","m","e">> /\ value.kind = "time"
    THEN [e EXCEPT !.time = value.v]
  ELSE AppendField(e, key, value)

\* logFormatNameFileLine(depth): the caller-location service
CallerName == StrVal(<<"f">>)
CallerFile == StrVal(<<"g">>)
CallerLine == IntVal(7)

\* the caller capture of writeTo: three ordinary fields when depth > 0
CaptureCaller(e) ==
  IF e.depth > 0
    THEN WithFieldEntry(
           WithFieldEntry(
             WithFieldEntry(e, <<"n","a","m","e">>, CallerName),
             <<"f","i","l","e">>, CallerFile),
           <<"l","i","n","e">>, CallerLine)
    ELSE e

\* fmt.Sprintln(args...) with its last byte cut off: the arguments joined by spaces
RECURSIVE Sprintln1(_)
Sprintln1(args) ==
  IF args = <<>> THEN <<>>
  ELSE IF Len(args) = 1 THEN args[1]
  ELSE args[1] \o <<" ">> \o Sprintln1(Tail(args))

\* fmt.Sprintf(format) for a format without verbs and no further arguments
Sprintf(format) == format


(***************************************************************************)
(* State.  The first group is one loggerStd with an abstract LoggerWriter  *)
(* as its sink; the second group is one syncWriterRotate with the file     *)
(* system and the wall clock it reads.                                     *)
(***************************************************************************)
VARIABLES
  Level,      \* loggerStd.Level, the configured threshold
  FileLine,   \* LoggerStdConfig.FileLine
  entries,    \* the entryStd instances, by identity
  pool,       \* loggerStd.Pool: the identities it holds
  Mutex,      \* loggerStd.Mutex: 0 when free, else the caller holding it
  sink,       \* loggerStd.Writer: the Write calls it received, in order, from
              \* the calls that have not returned yet
  templates,  \* identities of the template entries callers share
  held,       \* per caller: the working entry it got from WithField(s), or 0
  pc,         \* per caller: its position in the call it is making
  wn,         \* per caller: the Write calls its writeTo has made so far
  cur,        \* per caller: the working entry of the call in flight, or 0
  call,       \* history: the call the caller is making and what it wrote
  outcome,    \* history: how that call ended
  locked,     \* history: the renders of calls not yet returned, in Mutex.Lock order
  nf,         \* history: fields accumulated on each entry
  w,          \* the syncWriterRotate
  fs,         \* the files on disk: name -> size
  now,        \* the wall clock
  drv         \* the writer's caller: its position in the line it writes, and history

rotVars == <<w, fs, now, drv>>

vars == <<Level, FileLine, entries, pool, Mutex, sink, templates, held, pc, wn, cur,
          call, outcome, locked, nf, w, fs, now, drv>>

Ids == 1 .. MaxEntries

\* the logger's own template entry, log.entryStd
Base == 1

Blank == NewEntry(FileLine)

\* identities no one refers to: Pool.New allocates from these
FreeIds ==
  Ids \ (pool \cup templates \cup {held[p] : p \in Procs} \cup {cur[p] : p \in Procs})

MinOf(S) == CHOOSE x \in S : \A y \in S : x <= y

\* Pool.Get: any pooled entry, or (pool found empty, or ignored) one made by Pool.New
PoolGetShared ==
  pool \cup (({cur[p] : p \in Procs} \cup {held[p] : p \in Procs}) \ {0})
       \cup (IF FreeIds = {} THEN {} ELSE {MinOf(FreeIds)})
PoolGet == pool \cup (IF FreeIds = {} THEN {} ELSE {MinOf(FreeIds)})

\* the entry value Pool.Get hands out for identity n
Got(n) == IF n \in pool THEN entries[n] ELSE Blank

\* the entries a caller can make a call on
Receivers(p) == templates \cup ({held[p]} \ {0})

RecvKind(r) == IF r = Base THEN "logger" ELSE IF r \in templates THEN "context" ELSE "entry"

\* the history of a call: the method, its receiver and arguments, the entry it
\* returned, whether it appended a field and whether Pool.Get gave it an entry
\* that had been put back
NoCall == [op |-> "none", sev |-> LevelDebug, thr |-> LevelDebug, lvl0 |-> LevelDebug,
           recv |-> "logger", writes |-> 0, nl |-> 0,
           rid |-> 0, key |-> <<>>, val |-> NilVal, fields |-> "none", res |-> 0,
           grew |-> FALSE, reused |-> FALSE]

\* the history of a call of WithField or WithFields on r that returned res
Built(op, r, key, val, fields, res, grew) ==
  [NoCall EXCEPT !.op = op, !.thr = Level, !.lvl0 = Level, !.recv = RecvKind(r),
                 !.rid = r, !.key = key, !.val = val, !.fields = fields, !.res = res,
                 !.grew = grew]

\* NewLoggerStd, for the given configurations
InitLogger(lvls, filelines) ==
  /\ Level \in lvls
  /\ FileLine \in filelines
  /\ entries = [i \in Ids |->
                 IF i = Base THEN [NewEntry(FileLine) EXCEPT !.logout = TRUE]
                 ELSE NewEntry(FileLine)]
  /\ pool = {}
  /\ Mutex = 0
  /\ sink = <<>>
  /\ templates = {Base}
  /\ held = [p \in Procs |-> 0]
  /\ pc = [p \in Procs |-> "idle"]
  /\ wn = [p \in Procs |-> 0]
  /\ cur = [p \in Procs |-> 0]
  /\ call = [p \in Procs |-> NoCall]
  /\ outcome = [p \in Procs |-> "none"]
  /\ locked = <<>>
  /\ nf = [i \in Ids |-> 0]

\* loggerStd.SetLevel
SetLevel(level) ==
  /\ Mutex = 0
  /\ Level' = level
  /\ UNCHANGED <<FileLine, entries, pool, Mutex, sink, templates, held, pc, wn, cur,
                 call, outcome, locked, nf, rotVars>>

\* loggerStd.Sync: Mutex.Lock
SyncLock(p) ==
  /\ pc[p] = "idle"
  /\ Mutex = 0
  /\ Mutex' = p
  /\ pc' = [pc EXCEPT ![p] = "sync"]
  /\ UNCHANGED <<Level, FileLine, entries, pool, sink, templates, held, wn, cur,
                 call, outcome, locked, nf, rotVars>>

\* loggerStd.Sync: Writer.Sync, Mutex.Unlock
SyncUnlock(p) ==
  /\ pc[p] = "sync"
  /\ Mutex' = 0
  /\ pc' = [pc EXCEPT ![p] = "idle"]
  /\ UNCHANGED <<Level, FileLine, entries, pool, sink, templates, held, wn, cur,
                 call, outcome, locked, nf, rotVars>>

(***************************************************************************)
(* Calls on entries.  A call on a template forks a working entry with      *)
(* getEntry; Pool.Get and the copy are one step, since the forked entry is *)
(* private and the template is never written.  A call that ends moves to   *)
(* "ret", where its history is visible, and Return takes the caller back   *)
(* to "idle".                                                              *)
(***************************************************************************)
\* the call panicked inside getEntry: the entry taken from the pool is lost
Panicked(p, n, r, op, sev) ==
  /\ pool' = pool \ {n}
  /\ entries' = [entries EXCEPT ![n] = Blank]
  /\ pc' = [pc EXCEPT ![p] = "ret"]
  /\ outcome' = [outcome EXCEPT ![p] = "panic"]
  /\ call' = [call EXCEPT ![p] = [NoCall EXCEPT !.op = op, !.sev = sev, !.thr = Level,
                                                  !.lvl0 = Level, !.recv = RecvKind(r),
                                                  !.rid = r]]
  /\ UNCHANGED <<Level, FileLine, Mutex, sink, templates, held, wn, cur, locked, nf,
                 rotVars>>

\* WithField or WithFields returns an entry to its caller
Returned(p, rec) ==
  /\ pc' = [pc EXCEPT ![p] = "ret"]
  /\ call' = [call EXCEPT ![p] = rec]
  /\ outcome' = [outcome EXCEPT ![p] = "returned"]

\* `if entry.logout { entry = entry.getEntry() }`: whether a call on e forks
ForksNever(e) == FALSE
Forks(e) == e.logout

\* whether WithField(key, value) appends a field to e.data
Appends(e, key, value) == WithFieldEntry(e, key, value).data # e.data

\* integer depth adjustments are applied to entries at one of the two depths
\* NewLoggerStd sets
DepthBounded(e, key, value) ==
  (key = <<"d","e","p","t","h">> /\ value.kind = "int")
    => e.depth \in {LogDepth, LogDepth - DepthOff}

\* entryStd.WithField
WithField(p, r, key, value) ==
  /\ pc[p] = "idle"
  /\ r \in Receivers(p)
  /\ Appends(entries[r], key, value) => nf[r] < MaxFields
  /\ DepthBounded(entries[r], key, value)
  /\ IF Forks(entries[r])
       THEN /\ held[p] = 0
            /\ \E n \in PoolGet :
                 IF getEntryPanics(entries[r], Got(n))
                   THEN Panicked(p, n, r, "WithField", LevelDebug)
                   ELSE LET e == getEntry(entries[r], Got(n), Level) IN
                        /\ entries' = [entries EXCEPT ![n] = WithFieldEntry(e, key, value)]
                        /\ pool' = pool \ {n}
                        /\ held' = [held EXCEPT ![p] = n]
                        /\ nf' = [nf EXCEPT ![n] = nf[r] + IF Appends(e, key, value) THEN 1 ELSE 0]
                        /\ Returned(p, Built("WithField", r, key, value, "none", n,
                                              Appends(e, key, value)))
                        /\ UNCHANGED <<Level, FileLine, Mutex, sink, templates, wn, cur,
                                       locked, rotVars>>
       ELSE /\ entries' = [entries EXCEPT ![r] = WithFieldEntry(@, key, value)]
            /\ nf' = [nf EXCEPT ![r] = @ + IF Appends(entries[r], key, value) THEN 1 ELSE 0]
            /\ Returned(p, Built("WithField", r, key, value, "none", r,
                                  Appends(entries[r], key, value)))
            /\ UNCHANGED <<Level, FileLine, pool, Mutex, sink, templates, held, wn, cur,
                           locked, rotVars>>

\* `for k, v := range fields { entry.WithField(k, v) }` in the order kvs
RECURSIVE RangeFields(_, _)
RangeFields(e, kvs) ==
  IF kvs = <<>> THEN e
  ELSE RangeFields(WithFieldEntry(e, kvs[1][1], kvs[1][2]), Tail(kvs))

\* the number of fields that loop appends
RECURSIVE NAppends(_, _)
NAppends(e, kvs) ==
  IF kvs = <<>> THEN 0
  ELSE (IF Appends(e, kvs[1][1], kvs[1][2]) THEN 1 ELSE 0)
       + NAppends(WithFieldEntry(e, kvs[1][1], kvs[1][2]), Tail(kvs))

\* entryStd.WithFields(nil)
WithFieldsNil(p, r) ==
  /\ pc[p] = "idle"
  /\ r \in Receivers(p)
  /\ \E n \in PoolGet :
       IF getEntryPanics(entries[r], Got(n))
         THEN Panicked(p, n, r, "WithFields", LevelDebug)
         ELSE /\ entries' = [entries EXCEPT
                               ![n] = [getEntry(entries[r], Got(n), Level) EXCEPT !.logout = TRUE]]
              /\ pool' = pool \ {n}
              /\ templates' = templates \cup {n}
              /\ nf' = [nf EXCEPT ![n] = nf[r]]
              /\ Returned(p, Built("WithFields", r, <<>>, NilVal, "nil", n, FALSE))
              /\ UNCHANGED <<Level, FileLine, Mutex, sink, held, wn, cur, locked, rotVars>>

\* entryStd.WithFields(fields) for a non-nil map iterated in the order kvs
WithFields(p, r, kvs) ==
  /\ pc[p] = "idle"
  /\ r \in Receivers(p)
  /\ nf[r] + NAppends(entries[r], kvs) <= MaxFields
  /\ IF Forks(entries[r])
       THEN /\ held[p] = 0
            /\ \E n \in PoolGet :
                 IF getEntryPanics(entries[r], Got(n))
                   THEN Panicked(p, n, r, "WithFields", LevelDebug)
                   ELSE /\ entries' = [entries EXCEPT
                                         ![n] = RangeFields(getEntry(entries[r], Got(n), Level), kvs)]
                        /\ pool' = pool \ {n}
                        /\ held' = [held EXCEPT ![p] = n]
                        /\ nf' = [nf EXCEPT ![n] = nf[r] + NAppends(entries[r], kvs)]
                        /\ Returned(p, Built("WithFields", r, <<>>, NilVal,
                                              IF kvs = <<>> THEN "empty" ELSE "map", n,
                                              NAppends(entries[r], kvs) > 0))
                        /\ UNCHANGED <<Level, FileLine, Mutex, sink, templates, wn, cur,
                                       locked, rotVars>>
       ELSE /\ entries' = [entries EXCEPT ![r] = RangeFields(@, kvs)]
            /\ nf' = [nf EXCEPT ![r] = @ + NAppends(entries[r], kvs)]
            /\ Returned(p, Built("WithFields", r, <<>>, NilVal,
                                  IF kvs = <<>> THEN "empty" ELSE "map", r,
                                  NAppends(entries[r], kvs) > 0))
            /\ UNCHANGED <<Level, FileLine, pool, Mutex, sink, templates, held, wn, cur,
                           locked, rotVars>>

\* the condition of the logging methods: `if entry.level < lit` (Fatal and Fatalf
\* have no condition: checked = FALSE)
PassesOffByOne(e, checked, lit) == ~checked \/ e.level <= lit
Passes(e, checked, lit) == ~checked \/ e.level < lit

\* the body shared by the ten logging methods, on working entry e of identity id:
\* `if entry.level < lit { entry.level = sev; entry.message = msg; entry.putEntry() }`
\* (Debug has no assignment to level: setLevel = FALSE)
LevelCheck(p, id, e, r, sev, checked, lit, setLevel, msg) ==
  LET rec == [NoCall EXCEPT !.op = "log", !.sev = sev, !.thr = e.level, !.lvl0 = Level,
                            !.recv = RecvKind(r), !.rid = r, !.reused = id \in pool]
  IN
  IF Passes(e, checked, lit)
    THEN /\ entries' = [entries EXCEPT
                          ![id] = [e EXCEPT !.level = IF setLevel THEN sev ELSE @,
                                            !.message = msg]]
         /\ pool' = pool \ {id}
         /\ cur' = [cur EXCEPT ![p] = id]
         /\ held' = [held EXCEPT ![p] = IF @ = id THEN 0 ELSE @]
         /\ nf' = [nf EXCEPT ![id] = nf[r]]
         /\ pc' = [pc EXCEPT ![p] = "lock"]
         /\ call' = [call EXCEPT ![p] = rec]
         /\ outcome' = [outcome EXCEPT ![p] = "none"]
         /\ UNCHANGED <<Level, FileLine, Mutex, sink, templates, wn, locked, rotVars>>
    ELSE \* nothing is rendered; an entry forked for this call is garbage
         /\ pool' = pool \ {id}
         /\ entries' = IF id = r THEN entries ELSE [entries EXCEPT ![id] = Blank]
         /\ pc' = [pc EXCEPT ![p] = "ret"]
         /\ call' = [call EXCEPT ![p] = rec]
         /\ outcome' = [outcome EXCEPT ![p] = "dropped"]
         /\ UNCHANGED <<Level, FileLine, Mutex, sink, templates, held, wn, cur,
                        locked, nf, rotVars>>

\* `if entry.logout { entry = entry.getEntry() }`, then the level check
LogCall(p, r, sev, checked, lit, setLevel, msg) ==
  /\ pc[p] = "idle"
  /\ r \in Receivers(p)
  /\ IF Forks(entries[r])
       THEN \E n \in PoolGet :
              IF getEntryPanics(entries[r], Got(n))
                THEN Panicked(p, n, r, "log", sev)
                ELSE LevelCheck(p, n, getEntry(entries[r], Got(n), Level), r,
                                sev, checked, lit, setLevel, msg)
       ELSE LevelCheck(p, r, entries[r], r, sev, checked, lit, setLevel, msg)

Debug(p, r, args) == LogCall(p, r, LevelDebug, TRUE, 1, FALSE, Sprintln1(args))
Info(p, r, args) == LogCall(p, r, LevelInfo, TRUE, 2, TRUE, Sprintln1(args))
Warning(p, r, args) == LogCall(p, r, LevelWarning, TRUE, 3, TRUE, Sprintln1(args))
Error(p, r, args) == LogCall(p, r, LevelError, TRUE, 4, TRUE, Sprintln1(args))
Fatal(p, r, args) == LogCall(p, r, LevelFatal, FALSE, 5, TRUE, Sprintln1(args))
Debugf(p, r, format) == LogCall(p, r, LevelDebug, TRUE, 1, TRUE, Sprintf(format))
Infof(p, r, format) == LogCall(p, r, LevelInfo, TRUE, 2, TRUE, Sprintf(format))
Warningf(p, r, format) == LogCall(p, r, LevelWarning, TRUE, 3, TRUE, Sprintf(format))
Errorf(p, r, format) == LogCall(p, r, LevelError, TRUE, 4, TRUE, Sprintf(format))
Fatalf(p, r, format) == LogCall(p, r, LevelFatal, FALSE, 5, TRUE, Sprintf(format))

\* the call returns to its caller
Return(p) ==
  /\ pc[p] = "ret"
  /\ pc' = [pc EXCEPT ![p] = "idle"]
  /\ call' = [call EXCEPT ![p] = NoCall]
  /\ outcome' = [outcome EXCEPT ![p] = "none"]
  /\ sink' = SelectSeq(sink, LAMBDA c : c.p # p)
  /\ locked' = SelectSeq(locked, LAMBDA l : l.p # p)
  /\ UNCHANGED <<Level, FileLine, entries, pool, Mutex, templates, held, wn, cur, nf,
                 rotVars>>

(***************************************************************************)
(* putEntry: Mutex.Lock, writeTo, Mutex.Unlock, Pool.Put.                  *)
(***************************************************************************)
\* the condition under which writeTo writes the fields object
HasFieldsAlways(data) == TRUE
HasFields(data) == ByteLen(data) > 1

\* `entry.data = entry.data[0:0]`
TruncateNot(e) == e
Truncate(e) == [e EXCEPT !.data = <<>>]

\* entryStd.writeTo: the payloads of its Write calls, in order, and the entry it
\* leaves.  The entry is private to the caller, so when its fields change between
\* the Write calls is not observable.
writeTo(e) ==
  LET e1 == CaptureCaller(e)
      hasF == HasFields(e1.data)
      fieldsOut == IF hasF THEN <<part3, [e1.data EXCEPT ![Len(e1.data)] = "}"]>>
                   ELSE <<part4>>
      e2 == IF hasF THEN Truncate(e1) ELSE e1
      hasM == Len(e2.message) > 0
      e3 == IF hasM THEN Append_data(e2, writeString(e2.message)) ELSE e2
      msgOut == IF hasM THEN <<part5, e3.data, part6>> ELSE <<part7>>
      e4 == IF hasM THEN Truncate(e3) ELSE e3
  IN [writes |-> << part1, <<"T">>, part2, levels[e.level + 1] >> \o fieldsOut \o msgOut,
      entry |-> e4]

\* the number of newline bytes in b
Newlines(b) == Cardinality({i \in DOMAIN b : b[i] = "\n"})

RECURSIVE SumNewlines(_)
SumNewlines(bs) == IF bs = <<>> THEN 0 ELSE Newlines(Head(bs)) + SumNewlines(Tail(bs))

\* the Write calls bs, made by caller p, as the sink records them
Tagged(p, bs) == [i \in DOMAIN bs |-> [p |-> p, b |-> bs[i]]]

\* what a render leaves in the history when it takes the Mutex
LockRecord(p) ==
  [p |-> p, level |-> entries[cur[p]].level, user |-> nf[cur[p]],
   caller |-> entries[cur[p]].depth > 0, msg |-> entries[cur[p]].message]

\* Mutex.Lock() that does not wait for the holder
LockNoWait(p) ==
  /\ pc[p] = "lock"
  /\ Mutex' = p
  /\ pc' = [pc EXCEPT ![p] = "writeTo"]
  /\ wn' = [wn EXCEPT ![p] = 0]
  /\ locked' = Append(locked, LockRecord(p))
  /\ UNCHANGED <<Level, FileLine, entries, pool, sink, templates, held, cur, call, outcome,
                 nf, rotVars>>

\* putEntry: entry.logger.Mutex.Lock()
Lock(p) ==
  /\ pc[p] = "lock"
  /\ Mutex = 0
  /\ Mutex' = p
  /\ pc' = [pc EXCEPT ![p] = "writeTo"]
  /\ wn' = [wn EXCEPT ![p] = 0]
  /\ locked' = Append(locked, LockRecord(p))
  /\ UNCHANGED <<Level, FileLine, entries, pool, sink, templates, held, cur, call, outcome,
                 nf, rotVars>>

\* writeTo: its next Write call; after the last one the entry is as writeTo leaves it
writeToWrite(p) ==
  LET r == writeTo(entries[cur[p]])
      b == r.writes[wn[p] + 1]
      last == wn[p] + 1 = Len(r.writes)
  IN
  /\ pc[p] = "writeTo"
  /\ sink' = Append(sink, [p |-> p, b |-> b])
  /\ call' = [call EXCEPT ![p].writes = @ + 1, ![p].nl = @ + Newlines(b)]
  /\ wn' = [wn EXCEPT ![p] = IF last THEN 0 ELSE @ + 1]
  /\ pc' = [pc EXCEPT ![p] = IF last THEN "unlock" ELSE @]
  /\ entries' = IF last THEN [entries EXCEPT ![cur[p]] = r.entry] ELSE entries
  /\ nf' = IF last /\ entries[cur[p]].depth > 0 THEN [nf EXCEPT ![cur[p]] = @ + 3] ELSE nf
  /\ UNCHANGED <<Level, FileLine, pool, Mutex, templates, held, cur, outcome, locked,
                 rotVars>>

\* putEntry: entry.logger.Mutex.Unlock()
Unlock(p) ==
  /\ pc[p] = "unlock"
  /\ Mutex' = 0
  /\ pc' = [pc EXCEPT ![p] = "put"]
  /\ UNCHANGED <<Level, FileLine, entries, pool, sink, templates, held, wn, cur, call,
                 outcome, locked, nf, rotVars>>

\* putEntry up to and including Mutex.Unlock, as one step: the critical section
\* touches only the sink and the caller's private entry
Render(p) ==
  LET r == writeTo(entries[cur[p]]) IN
  /\ pc[p] = "lock"
  /\ Mutex = 0
  /\ locked' = Append(locked, LockRecord(p))
  /\ sink' = sink \o Tagged(p, r.writes)
  /\ call' = [call EXCEPT ![p].writes = Len(r.writes), ![p].nl = SumNewlines(r.writes)]
  /\ entries' = [entries EXCEPT ![cur[p]] = r.entry]
  /\ nf' = IF entries[cur[p]].depth > 0 THEN [nf EXCEPT ![cur[p]] = @ + 3] ELSE nf
  /\ pc' = [pc EXCEPT ![p] = "put"]
  /\ UNCHANGED <<Level, FileLine, pool, Mutex, templates, held, wn, cur, outcome, rotVars>>

\* putEntry: entry.logger.Pool.Put(entry)
PoolPut(p) ==
  /\ pc[p] = "put"
  /\ pool' = pool \cup {cur[p]}
  /\ cur' = [cur EXCEPT ![p] = 0]
  /\ pc' = [pc EXCEPT ![p] = "ret"]
  /\ outcome' = [outcome EXCEPT ![p] = "written"]
  /\ nf' = [nf EXCEPT ![cur[p]] = 0]
  /\ UNCHANGED <<Level, FileLine, entries, Mutex, sink, templates, held, wn, call, locked,
                 rotVars>>

(***************************************************************************)
(* The environment of the logger: callers forget handles, and the runtime  *)
(* may drop pooled entries.                                                *)
(***************************************************************************)
\* a caller drops the working entry it holds without rendering it
Forget(p) ==
  /\ pc[p] = "idle"
  /\ held[p] # 0
  /\ held' = [held EXCEPT ![p] = 0]
  /\ entries' = [entries EXCEPT ![held[p]] = Blank]
  /\ nf' = [nf EXCEPT ![held[p]] = 0]
  /\ UNCHANGED <<Level, FileLine, pool, Mutex, sink, templates, pc, wn, cur, call, outcome,
                 locked, rotVars>>

\* the last reference to a context obtained by WithFields(nil) goes away; the
\* receiver and the result of a call that has not returned are still referenced
ForgetContext(t) ==
  /\ t \in templates \ {Base}
  /\ \A p \in Procs : pc[p] = "ret" => t \notin {call[p].rid, call[p].res}
  /\ templates' = templates \ {t}
  /\ entries' = [entries EXCEPT ![t] = Blank]
  /\ nf' = [nf EXCEPT ![t] = 0]
  /\ UNCHANGED <<Level, FileLine, pool, Mutex, sink, held, pc, wn, cur, call, outcome,
                 locked, rotVars>>

\* sync.Pool releases an item it holds
PoolRelease(n) ==
  /\ n \in pool
  /\ pool' = pool \ {n}
  /\ entries' = [entries EXCEPT ![n] = Blank]
  /\ UNCHANGED <<Level, FileLine, Mutex, sink, templates, held, pc, wn, cur, call, outcome,
                 locked, nf, rotVars>>

(***************************************************************************)
(* Specifications of the logger.                                           *)
(***************************************************************************)
KeyA == <<"a">>
KeyDepth == <<"d","e","p","t","h">>
KeyTime == <<"t","i","m","e">>
Enable == StrVal(<<"e","n","a","b","l","e">>)
Disable == StrVal(<<"d","i","s","a","b","l","e">>)
Msg == <<"m">>

\* no rotating writer is part of the logger specifications
NoWriter == [file |-> "nil"]
InitNoWriter ==
  /\ w = NoWriter
  /\ fs = <<>>
  /\ now = 0
  /\ drv = <<>>

(* Concurrent callers: two goroutines log, build entries and contexts, sync  *)
(* and change the level.                                                   *)
ConcLevels == {LevelInfo, LevelError}
ConcFields == { <<KeyA, IntVal(1)>> }

Init == InitLogger(ConcLevels, {FALSE}) /\ InitNoWriter

Next ==
  \/ \E l \in ConcLevels : SetLevel(l)
  \/ \E p \in Procs : SyncLock(p)
  \/ \E p \in Procs : SyncUnlock(p)
  \/ \E p \in Procs, r \in Ids, kv \in ConcFields : WithField(p, r, kv[1], kv[2])
  \/ \E p \in Procs, r \in Ids : WithFieldsNil(p, r)
  \/ \E p \in Procs, r \in Ids : Info(p, r, <<Msg>>)
  \/ \E p \in Procs, r \in Ids : Fatalf(p, r, Msg)
  \/ \E p \in Procs : Lock(p)
  \/ \E p \in Procs : writeToWrite(p)
  \/ \E p \in Procs : Unlock(p)
  \/ \E p \in Procs : PoolPut(p)
  \/ \E p \in Procs : Return(p)
  \/ \E p \in Procs : Forget(p)
  \/ \E t \in Ids : ForgetContext(t)
  \/ \E n \in Ids : PoolRelease(n)

Spec == Init /\ [][Next]_vars

(* One caller, every logging method, every level.                          *)
LevelFields == { <<KeyA, IntVal(1)>>, <<KeyA, BigVal>> }

InitLevels == InitLogger(LoggerLevels, {FALSE}) /\ InitNoWriter

NextLevels ==
  \/ \E l \in LoggerLevels : SetLevel(l)
  \/ \E r \in Ids, kv \in LevelFields : WithField(1, r, kv[1], kv[2])
  \/ \E r \in Ids : WithFieldsNil(1, r)
  \/ \E r \in Ids : Debug(1, r, <<Msg>>)
  \/ \E r \in Ids : Info(1, r, <<Msg>>)
  \/ \E r \in Ids : Warning(1, r, <<Msg>>)
  \/ \E r \in Ids : Error(1, r, <<Msg>>)
  \/ \E r \in Ids : Fatal(1, r, <<Msg>>)
  \/ \E r \in Ids : Debugf(1, r, Msg)
  \/ \E r \in Ids : Infof(1, r, Msg)
  \/ \E r \in Ids : Warningf(1, r, Msg)
  \/ \E r \in Ids : Errorf(1, r, Msg)
  \/ \E r \in Ids : Fatalf(1, r, Msg)
  \/ Render(1)
  \/ PoolPut(1)
  \/ Return(1)
  \/ Forget(1)
  \/ \E t \in Ids : ForgetContext(t)
  \/ \E n \in Ids : PoolRelease(n)

SpecLevels == InitLevels /\ [][NextLevels]_vars

(* One caller, every shape of line: with and without fields, caller        *)
(* capture and message.                                                    *)
ShapeFields ==
  { <<KeyA, IntVal(1)>>, <<KeyDepth, IntVal(-LogDepth)>>, <<KeyDepth, Enable>>,
    <<KeyDepth, Disable>>, <<KeyTime, TimeVal("user")>>, <<KeyTime, IntVal(1)>> }
ShapeMaps == { <<>>, << <<KeyA, NilVal>> >> }

InitShape == InitLogger({LevelInfo}, BOOLEAN) /\ InitNoWriter

NextShape ==
  \/ \E r \in Ids, kv \in ShapeFields : WithField(1, r, kv[1], kv[2])
  \/ \E r \in Ids : WithFieldsNil(1, r)
  \/ \E r \in Ids, kvs \in ShapeMaps : WithFields(1, r, kvs)
  \/ \E r \in Ids, args \in {<<>>, <<Msg>>, <<Msg, Msg>>} : Info(1, r, args)
  \/ \E r \in Ids, f \in {<<>>, <<"\"">>} : Errorf(1, r, f)
  \/ Render(1)
  \/ PoolPut(1)
  \/ Return(1)
  \/ Forget(1)
  \/ \E t \in Ids : ForgetContext(t)
  \/ \E n \in Ids : PoolRelease(n)

SpecShape == InitShape /\ [][NextShape]_vars

\* values of the kinds writeReflect walks into: empty and nested containers
FieldValues ==
  { IntVal(1), NilVal, SliceVal(<<>>), MapVal(<<>>),
    SliceVal(<< MapVal(<<>>), SliceVal(<<>>) >>),
    MapVal(<< <<StrVal(<<"k">>), SliceVal(<< IntVal(1) >>)>> >>) }
FieldsFields ==
  {<<KeyA, v>> : v \in FieldValues} \cup {<<KeyTime, SliceVal(<<>>)>>, <<KeyDepth, Enable>>}
FieldsMaps == { <<>>, << <<KeyA, MapVal(<<>>)>> >> }

InitFields == InitLogger({LevelInfo}, {TRUE}) /\ InitNoWriter

NextFields ==
  \/ \E r \in Ids, kv \in FieldsFields : WithField(1, r, kv[1], kv[2])
  \/ \E r \in Ids : WithFieldsNil(1, r)
  \/ \E r \in Ids, kvs \in FieldsMaps : WithFields(1, r, kvs)
  \/ \E r \in Ids : Info(1, r, <<Msg>>)
  \/ Render(1)
  \/ PoolPut(1)
  \/ Return(1)
  \/ Forget(1)
  \/ \E t \in Ids : ForgetContext(t)
  \/ \E n \in Ids : PoolRelease(n)

SpecFields == InitFields /\ [][NextFields]_vars

(***************************************************************************)
(* syncWriterRotate.  A file name is the pair of the date text that        *)
(* formatDateName puts in it and the number that replaces "index".  The    *)
(* bufio.Writer in front of the file is transparent: the bytes of a Write  *)
(* are counted in the file that is open when Write is called.              *)
(***************************************************************************)
Hour(t) == t \div TicksPerHour

\* getNextHour at instant t
getNextHour(t) == (Hour(t) + 1) * TicksPerHour

\* formatDateName at instant t: the date text of a name that holds the date
\* tokens up to "HH", or of a name that holds none
formatDateName(name, t) == IF name.date = "hour" THEN Hour(t) ELSE 0

\* strings.Replace(formatDateName(name), "index", fmt.Sprint(i), -1)
FileName(name, t, i) ==
  [date |-> formatDateName(name, t), idx |-> IF name.index THEN i ELSE 0]

Names == [date : 0 .. Hour(MaxNow), idx : 0 .. MaxIndex]

\* rotateFile: `if w.nbytes < w.MaxSize`
Fits(size, max) == size < max

\* `for _, fn := range w.newfn { fn(name) }` with the symlink callback that
\* NewLoggerStd registers: link is the name the callback was last given,
\* called the names it was given since the writer's caller called the writer
CallbacksSkipped(ww, name) == ww
Callbacks(ww, name) == [ww EXCEPT !.link = name, !.called = Append(@, name)]

\* one iteration of the loop of rotateFile; fail tells that os.OpenFile fails
rotateIter(ww, files, t, fail) ==
  LET name == FileName(ww.name, t, ww.nextindex)
      w1 == [ww EXCEPT !.nextindex = @ + 1, !.nbytes = files[name]]
  IN
  IF fail THEN [w |-> ww, st |-> "err"]
  ELSE IF Fits(w1.nbytes, w1.MaxSize)
    THEN [w |-> Callbacks([w1 EXCEPT !.file = name], name), st |-> "done"]
  ELSE [w |-> w1, st |-> "again"]

\* rotateFile, from its k-th os.OpenFile on; the failAt-th open fails.  `over`
\* tells that the loop went past MaxIndex.
RECURSIVE rotateLoop(_, _, _, _, _)
rotateLoop(ww, files, t, failAt, k) ==
  LET it == rotateIter(ww, files, t, k = failAt) IN
  IF ww.nextindex > MaxIndex THEN [w |-> ww, err |-> FALSE, over |-> TRUE]
  ELSE IF it.st = "err" THEN [w |-> ww, err |-> TRUE, over |-> FALSE]
  ELSE IF it.st = "done" THEN [w |-> it.w, err |-> FALSE, over |-> FALSE]
  ELSE rotateLoop(it.w, files, t, failAt, k + 1)

\* syncWriterRotate.rotateFile
rotateFile(ww, files, t, failAt) == rotateLoop(ww, files, t, failAt, 1)

NoRotate(ww) == [w |-> ww, err |-> FALSE, over |-> FALSE]

\* Write: `len(p) == 9 && w.nbytes+uint64(len(p)) >= w.MaxSize && string(p) == string(part1)`
SizeRotatesNever(ww, p) == FALSE
SizeRotatesAnyChunk(ww, p) == ww.nbytes + p.len >= ww.MaxSize
SizeRotates(ww, p) ==
  p.len = Len(part1) /\ ww.nbytes + p.len >= ww.MaxSize /\ p.kind = "part1"

\* the lines the writer's caller writes to a writer of threshold max
MaxLines(max) == max \div (Len(part1) + 1) + ExtraLines

\* the Write calls of a line: the start-of-entry marker, at most one in the
\* middle, the final one
Payloads ==
  { [kind |-> "part1", len |-> Len(part1)],
    [kind |-> "mid", len |-> MidLen],
    [kind |-> "end", len |-> 1] }

\* the threshold of a writer that has none: 0xffffffff in the source, 2^30
\* here, a number above every size that writes reach and within the integers
\* of the model checker
NoLimit == 2^30

\* NewLoggerWriterRotate(name, std, maxsize), up to the struct it builds, for a
\* name that holds "index" or a date token: without "index" maxsize is 0, and
\* a maxsize of 0 becomes 0xffffffff
NewWriter(name, maxsize) ==
  [name |-> name,
   MaxSize |-> IF ~name.index \/ maxsize = 0 THEN NoLimit ELSE maxsize,
   nextindex |-> 0, nexttime |-> getNextHour(0), nbytes |-> 0,
   file |-> [date |-> -1, idx |-> -1], link |-> [date |-> -1, idx |-> -1],
   called |-> <<>>]

\* NewLoggerWriterRotate(name, std, maxsize): the writer after its first
\* rotateFile
NewLoggerWriterRotate(name, maxsize, files) ==
  rotateFile(NewWriter(name, maxsize), files, 0, 0).w

\* `time.Now().After(w.nexttime)`
AfterOrAt(t, next) == t >= next
After(t, next) == t > next

\* syncWriterRotate.Write(p), called by the writer's caller in the order of a
\* line.  failSize and failTime choose the os.OpenFile that fails in the size
\* rotation and in the time rotation (0: none; chosen only when that rotation
\* runs).
Write(p, failSize, failTime) ==
  LET w0 == [w EXCEPT !.called = <<>>]
      r1 == IF SizeRotates(w, p) THEN rotateFile(w0, fs, now, failSize) ELSE NoRotate(w0)
      after == After(now, r1.w.nexttime)
      w2 == IF after THEN [r1.w EXCEPT !.nexttime = getNextHour(now)] ELSE r1.w
      changed == after /\ FileName(w2.name, now, w2.nextindex - 1) # w2.file
      r2 == IF changed THEN rotateFile([w2 EXCEPT !.nextindex = 0], fs, now, failTime)
            ELSE NoRotate(w2)
      f == r2.w.file
      first == p.kind = "part1"
  IN
  /\ CASE p.kind = "part1" -> drv.phase = "idle" /\ drv.lines < MaxLines(w.MaxSize)
       [] p.kind = "mid" -> drv.phase = "line"
       [] p.kind = "end" -> drv.phase \in {"line", "body"}
  /\ failSize # 0 => SizeRotates(w, p)
  /\ failTime # 0 => changed
  /\ ~r1.over /\ ~r2.over
  /\ (r1.err \/ r2.err) => drv.fails < MaxFails
  /\ fs' = [fs EXCEPT ![f] = @ + p.len]
  /\ w' = [r2.w EXCEPT !.nbytes = @ + p.len]
  /\ drv' = [drv EXCEPT
       !.phase = CASE p.kind = "part1" -> "line"
                   [] p.kind = "mid" -> "body"
                   [] p.kind = "end" -> "idle",
       !.lines = IF first THEN @ + 1 ELSE @,
       !.files = IF first THEN {f} ELSE @ \cup {f},
       !.lastLine = [@ EXCEPT ![f] = IF first \/ f \notin drv.files THEN p.len
                                     ELSE @ + p.len],
       !.nlines = IF first THEN [@ EXCEPT ![f] = @ + 1] ELSE @,
       !.rotErr = r1.err \/ r2.err,
       !.ret = "nil",
       !.fails = IF r1.err \/ r2.err THEN @ + 1 ELSE @,
       !.timeRot = @ \/ changed,
       !.mid = [file |-> r1.w.file, nextindex |-> r1.w.nextindex],
       !.opened = (IF SizeRotates(w, p) /\ ~r1.err THEN <<r1.w.file>> ELSE <<>>)
                  \o (IF changed /\ ~r2.err THEN <<r2.w.file>> ELSE <<>>),
       !.tfail = r2.err,
       !.allTen = @ /\ p.kind # "mid"]
  /\ now' = now
  /\ UNCHANGED <<Level, FileLine, entries, pool, Mutex, sink, templates, held, pc, wn, cur,
                 call, outcome, locked, nf>>

\* the wall clock advances
Tick ==
  /\ now < MaxNow
  /\ now' = now + 1
  /\ UNCHANGED <<Level, FileLine, entries, pool, Mutex, sink, templates, held, pc, wn, cur,
                 call, outcome, locked, nf, w, fs, drv>>

(* The rotating writer alone: lines are written to it while the clock      *)
(* advances and opens fail.                                                *)
RotNames == { [index |-> TRUE, date |-> "none"], [index |-> TRUE, date |-> "hour"] }
Thresholds == {30, 100}

\* the first segment file before the writer is built: absent, part filled, or full
FirstSizes(max) == {0, max - 10, max + 5}

InitRotate ==
  /\ InitLogger({LevelDebug}, {FALSE})
  /\ now = 0
  /\ \E name \in RotNames, max \in Thresholds :
       \E size \in FirstSizes(max) :
         /\ fs = [n \in Names |-> IF n = FileName(name, 0, 0) THEN size ELSE 0]
         /\ w = NewLoggerWriterRotate(name, max, fs)
         /\ drv = [phase |-> "idle", lines |-> 0, files |-> {},
                   lastLine |-> [n \in Names |-> 0], nlines |-> [n \in Names |-> 0],
                   rotErr |-> FALSE, ret |-> "none", fails |-> 0,
                   timeRot |-> FALSE, allTen |-> TRUE, fresh |-> size = 0,
                   mid |-> [file |-> w.file, nextindex |-> w.nextindex],
                   opened |-> <<w.file>>, tfail |-> FALSE]

NextRotate ==
  \/ \E p \in Payloads, failSize \in 0 .. 2, failTime \in 0 .. 1 : Write(p, failSize, failTime)
  \/ Tick

SpecRotate == InitRotate /\ [][NextRotate]_vars

(* rotateFile alone, one iteration of its loop per step, from the writer    *)
(* NewLoggerWriterRotate builds, over the files that exist beforehand.     *)
LoopNames == RotNames \cup { [index |-> FALSE, date |-> "hour"] }

\* w.nextindex is an int: it wraps; the model wraps it past the indices of Names
IndexWrap == MaxIndex + 2

\* the files before the writer is built: each of the segments below MaxIndex
\* is absent, part filled or full
InitRotateFile ==
  /\ InitLogger({LevelDebug}, {FALSE})
  /\ now = 0
  /\ \E name \in LoopNames, max \in Thresholds :
       \E sizes \in [0 .. MaxIndex - 1 -> FirstSizes(NewWriter(name, max).MaxSize)] :
         /\ fs = [n \in Names |->
                    IF n.date = formatDateName(name, 0) /\ n.idx < MaxIndex
                      THEN sizes[n.idx] ELSE 0]
         /\ w = NewWriter(name, max)
         /\ drv = [phase |-> "loop", skipped |-> {}]

\* one iteration of `for { ... }` in rotateFile
RotateStep(fail) ==
  LET it == rotateIter(w, fs, now, fail) IN
  /\ drv.phase = "loop"
  /\ w' = [it.w EXCEPT !.nextindex = @ % IndexWrap]
  /\ drv' = [phase |-> IF it.st = "again" THEN "loop" ELSE it.st,
             skipped |-> IF it.st = "again"
                           THEN drv.skipped \cup {FileName(w.name, now, w.nextindex)}
                           ELSE drv.skipped]
  /\ UNCHANGED <<Level, FileLine, entries, pool, Mutex, sink, templates, held, pc, wn, cur,
                 call, outcome, locked, nf, fs, now>>

NextRotateFile == \E fail \in BOOLEAN : RotateStep(fail)

\* the loop goes on as long as it has not returned
SpecRotateFile == InitRotateFile /\ [][NextRotateFile]_vars /\ WF_vars(NextRotateFile)

(***************************************************************************)
(* Properties.                                                             *)
(***************************************************************************)
\* a call of one of the eight filtered logging methods
Filtered(p) == call[p].op = "log" /\ call[p].sev <= LevelError

\* C1, as stated: a Debug/Info/Warning/Error call, plain or formatted, whose
\* severity is below the logger's threshold at the moment of the call writes
\* zero bytes to the sink, on the logger, on a context and on an entry returned
\* earlier by WithField/WithFields, after any SetLevel calls.
C1_BelowCurrentLevel ==
  \A p \in Procs :
    (Filtered(p) /\ call[p].sev < call[p].lvl0) => call[p].writes = 0

\* C1, amended: the threshold a call is filtered by is the one its working entry
\* carries.  On the logger and on a context that is the logger's threshold at
\* the moment of the call; on an entry returned earlier by WithField/WithFields
\* it is the logger's threshold when that entry was forked.  A call whose
\* severity is below the carried threshold writes zero bytes.
C1_BelowCarriedLevel ==
  \A p \in Procs :
    Filtered(p) =>
      /\ call[p].recv # "entry" => call[p].thr = call[p].lvl0
      /\ call[p].sev < call[p].thr => call[p].writes = 0 /\ outcome[p] # "written"

\* a call on an entry forked before SetLevel raised the threshold was dropped
C1_Witness ==
  \E p \in Procs :
    /\ pc[p] = "ret" /\ Filtered(p) /\ outcome[p] = "dropped"
    /\ call[p].recv = "entry"
    /\ call[p].sev < call[p].thr /\ call[p].thr # call[p].lvl0

\* the callers inside writeTo or Writer.Sync
InCritical(p) == pc[p] \in {"writeTo", "unlock", "sync"}

\* the place of caller p's render in the order of Mutex.Lock
LockPos(p) == CHOOSE i \in DOMAIN locked : locked[i].p = p

\* C3: at most one caller is inside writeTo/Writer.Sync at a time, and the Write
\* calls in the sink are grouped by line in the order the renders took the Mutex.
C3_Serialized ==
  /\ \A p, q \in Procs : (InCritical(p) /\ InCritical(q)) => p = q
  /\ \A i, j \in DOMAIN sink : i < j => LockPos(sink[i].p) <= LockPos(sink[j].p)

\* the sink holds the line of one caller followed by Write calls of another
\* that is still inside writeTo
C3_Witness ==
  \E p, q \in Procs :
    /\ p # q /\ pc[p] \in {"put", "ret"} /\ pc[q] = "writeTo" /\ wn[q] > 1
    /\ sink[1].p = p /\ sink[Len(sink)].p = q

\* C4: a step never changes a template's field buffer, depth or template flag,
\* never renders a template and never puts it in the pool.
C4_TemplatesFrozen ==
  [][\A t \in templates :
       /\ t \notin pool'
       /\ \A p \in Procs : cur'[p] # t
       /\ t \in templates' =>
            /\ entries'[t].data = entries[t].data
            /\ entries'[t].depth = entries[t].depth
            /\ entries'[t].logout /\ entries[t].logout]_vars

\* a line was written by a call on a context that holds a field, while another
\* caller holds an entry built from a template
C4_Witness ==
  \E p, q \in Procs :
    /\ p # q /\ pc[p] = "ret" /\ outcome[p] = "written" /\ call[p].recv = "context"
    /\ held[q] # 0
    /\ \E t \in templates \ {Base} : entries[t].data # <<>>

\* C5: the working entries in use (in flight in a logging call, or held by a
\* caller that built them) are pairwise distinct, are no templates and are not
\* in the pool.
C5_Distinct ==
  \A p \in Procs :
    /\ cur[p] # 0 =>
         /\ cur[p] \notin pool \cup templates
         /\ cur[p] # held[p]
         /\ \A q \in Procs \ {p} : cur[q] # cur[p] /\ held[q] # cur[p]
    /\ held[p] # 0 =>
         /\ held[p] \notin pool \cup templates
         /\ \A q \in Procs \ {p} : held[q] # held[p]

\* two calls are in flight at once, one of them on an entry the pool handed out
\* after it was put back
C5_Witness ==
  /\ \A p \in Procs : cur[p] # 0
  /\ \E p \in Procs : entries[cur[p]].cap > DataCap \/ pc[p] = "writeTo"

\* C6, as stated: a call whose severity is at or above the threshold it is
\* filtered by, and every Fatal/Fatalf call, has written exactly one line when
\* it ends, and its working entry is back in the pool.
C6_OneLineThenPooled ==
  \A p \in Procs :
    (pc[p] = "ret" /\ call[p].op = "log"
       /\ (call[p].sev >= call[p].thr \/ call[p].sev = LevelFatal))
    => (outcome[p] = "written" /\ call[p].writes > 0 /\ call[p].nl = 1)

\* the Write calls of caller p's line in the sink
LineOf(p) == SelectSeq(sink, LAMBDA c : c.p = p)

\* a rendered line: its Write calls, given whether fields were accumulated and
\* the message text
Shape(line, hasFields, msg) ==
  LET k == IF hasFields THEN 6 ELSE 5 IN
  /\ Len(line) = k + (IF Len(msg) > 0 THEN 3 ELSE 1)
  /\ line[1].b = part1
  /\ line[2].b = <<"T">>
  /\ line[3].b = part2
  /\ \E l \in DOMAIN levels : line[4].b = levels[l]
  /\ IF hasFields
       THEN /\ line[5].b = part3
            /\ Len(line[6].b) > 1
            /\ line[6].b[Len(line[6].b)] = "}"
       ELSE line[5].b = part4
  /\ IF Len(msg) > 0
       THEN /\ line[k + 1].b = part5
            /\ line[k + 2].b = writeString(msg)
            /\ line[k + 3].b = part6
       ELSE line[k + 1].b = part7
  /\ \A i \in 1 .. Len(line) - 1 : Newlines(line[i].b) = 0

\* C10: a rendered line holds the fields object exactly when a user field or the
\* caller's name/file/line was accumulated, holds the message key exactly when
\* the message is not empty, and is {time, level[, fields][, message]} and a
\* newline.
C10_Shape ==
  \A p \in Procs :
    (pc[p] \in {"put", "ret"} /\ LineOf(p) # <<>>) =>
      LET rec == locked[LockPos(p)] IN
      Shape(LineOf(p), rec.user + (IF rec.caller THEN 3 ELSE 0) >= 1, rec.msg)

\* a line whose only fields are the caller's, without a message
C10_Witness ==
  \E p \in Procs :
    /\ pc[p] = "put" /\ LineOf(p) # <<>>
    /\ locked[LockPos(p)].user = 0
    /\ locked[LockPos(p)].caller
    /\ locked[LockPos(p)].msg = <<>>

\* the first segment file of the rotating writer
Seg0 == FileName(w.name, 0, 0)

\* C2, as stated: all bytes of a line, from the start-of-entry marker on, land
\* in one segment file.
C2_OneSegment == Cardinality(drv.files) <= 1

\* C7, as stated: a closed segment the writer wrote to is no larger than the
\* threshold plus the bytes of the last line written to it.
C7_ClosedSegments ==
  \A f \in Names :
    (f # w.file /\ drv.lastLine[f] > 0) => fs[f] <= w.MaxSize + drv.lastLine[f]

\* C7, amended: as long as every os.OpenFile of the rotations succeeded, a closed
\* segment the writer wrote to is no larger than the threshold plus the bytes of
\* the last line written to it.
C7_ClosedSegmentsOpened ==
  drv.fails = 0 =>
    \A f \in Names :
      (f # w.file /\ drv.lastLine[f] > 0) => fs[f] <= w.MaxSize + drv.lastLine[f]

\* a closed segment is over the threshold by part of its last line
C7_Witness ==
  /\ drv.fails = 0
  /\ \E f \in Names : f # w.file /\ drv.lastLine[f] > 0 /\ fs[f] > w.MaxSize

\* the scenario of C8: threshold 100, no segment file beforehand, every line of
\* 10 bytes, no open failed and the date in the name did not change
TenByteLines ==
  /\ w.MaxSize = 100 /\ drv.fresh /\ drv.allTen
  /\ drv.fails = 0 /\ ~drv.timeRot

\* C8, as stated: 9 lines go to segment 0 and the writer is on segment 1 from
\* the start of the 10th line on.
C8_NineLines ==
  TenByteLines =>
    /\ drv.nlines[Seg0] <= 9
    /\ drv.lines >= 10 => w.file.idx >= 1

\* C8, amended: 10 lines go to segment 0, and the writer rotates to segment 1 at
\* the start of the 11th line.
C8_TenLines ==
  TenByteLines =>
    /\ drv.lines <= 10 => (drv.nlines[Seg0] = drv.lines /\ w.file = Seg0)
    /\ drv.lines > 10 => (drv.nlines[Seg0] = 10 /\ w.file.idx = 1)

\* the 11th line has started, on segment 1
C8_Witness ==
  /\ TenByteLines /\ drv.lines = 11
  /\ drv.nlines[Seg0] = 10 /\ w.file.idx = 1 /\ fs[Seg0] = 100

\* C9, as stated: a Write whose rotation failed to open the new segment returns
\* the rotation error.
C9_ErrorReturned == drv.rotErr => drv.ret = "error"

\* the names of the severities, DEBUG = 0 .. FATAL = 4
SeverityName ==
  << <<"D","E","B","U","G">>,
     <<"I","N","F","O">>,
     <<"W","A","R","N","I","N","G">>,
     <<"E","R","R","O","R">>,
     <<"F","A","T","A","L">> >>

\* C11, as stated: the level written in a line is the name of the severity of
\* the logging method that produced the line.
C11_LevelName ==
  \A p \in Procs :
    (call[p].op = "log" /\ pc[p] \in {"put", "ret"} /\ LineOf(p) # <<>>) =>
      LineOf(p)[4].b = SeverityName[call[p].sev + 1]

\* C12, as stated: a fork never fails, and the entry it yields carries a copy of
\* the receiver's field buffer, the receiver's depth and the logger's level at
\* the time of the call.
C12_ForkCopies ==
  \A p \in Procs :
    (pc[p] = "ret" /\ call[p].op \in {"WithField", "WithFields", "log"}) =>
      /\ outcome[p] # "panic"
      /\ (call[p].op = "WithFields" /\ call[p].fields = "nil") =>
           /\ entries[call[p].res].data = entries[call[p].rid].data
           /\ entries[call[p].res].depth = entries[call[p].rid].depth
           /\ entries[call[p].res].level = call[p].lvl0

\* C13, as stated: WithField with the key "depth" or the key "time" appends
\* nothing to the field buffer, whatever the value.
C13_ControlKeysSilent ==
  \A p \in Procs :
    (pc[p] = "ret" /\ call[p].op = "WithField" /\ outcome[p] = "returned"
       /\ call[p].key \in {KeyDepth, KeyTime}) => ~call[p].grew

\* C14, as stated: after WithField("depth", "enable") caller capture is on and a
\* second application changes nothing; after WithField("depth", "disable")
\* caller capture is off and a second application changes nothing.
C14_ToggleOnce ==
  \A p \in Procs :
    (pc[p] = "ret" /\ call[p].op = "WithField" /\ outcome[p] = "returned"
       /\ call[p].key = KeyDepth /\ call[p].val \in {Enable, Disable}) =>
      LET once == entries[call[p].res]
          twice == WithFieldEntry(once, KeyDepth, call[p].val)
      IN /\ twice.depth = once.depth
         /\ (call[p].val = Enable) => once.depth > 0
         /\ (call[p].val = Disable) => once.depth <= 0

\* C15, as stated: WithFields with a nil or an empty mapping returns an entry
\* other than its receiver, with the template flag set.
C15_EmptyMakesTemplate ==
  \A p \in Procs :
    (pc[p] = "ret" /\ call[p].op = "WithFields" /\ outcome[p] = "returned"
       /\ call[p].fields \in {"nil", "empty"}) =>
      /\ call[p].res # call[p].rid
      /\ entries[call[p].res].logout

\* the entries callers and contexts hold between calls
InUse == (templates \cup {held[p] : p \in Procs}) \ {0}

\* C16: the field buffer of every entry that callers hold is empty or ends
\* with the separator ',', whatever values WithField and WithFields were given.
C16_TrailingComma ==
  \A i \in InUse :
    entries[i].data = <<>> \/ entries[i].data[Len(entries[i].data)] = ","

\* an entry holds a field whose value was an empty mapping: the '{' was
\* overwritten, and '}' follows the ':' directly
C16_Witness ==
  \E i \in InUse :
    LET d == entries[i].data IN
      /\ Len(d) >= 3
      /\ d[Len(d) - 2] = ":" /\ d[Len(d) - 1] = "}" /\ d[Len(d)] = ","

\* C17, as stated: rotateFile returns, with an open error or with the current
\* file being the first index tried whose size is below the threshold, every
\* index before it having been skipped because its file is at or above the
\* threshold.
C17_Terminates ==
  /\ <>(drv.phase \in {"done", "err"})
  /\ [](drv.phase = "done" =>
          /\ fs[w.file] < w.MaxSize
          /\ \A n \in drv.skipped : fs[n] >= w.MaxSize
          /\ w.name.index =>
               drv.skipped = {FileName(w.name, now, i) : i \in 0 .. w.file.idx - 1})

\* C18: a Write made after the recorded next hour recomputes it, and no other
\* Write changes it.  If then the name at the current index, formatted for the
\* present time, differs from the name of the open file, the writer rotates
\* from index zero: the open file becomes the first segment of the present
\* date that is below the threshold, whatever the size of the file that was
\* open (when the first open of that rotation fails, the index stays at zero
\* and the file stays open).  If the name is the same, or the next hour has
\* not passed, the time check leaves the open file and the index alone.
C18_TimeCheck ==
  [][fs' # fs =>
       LET after == now > w.nexttime
           mid == drv'.mid
           differs == FileName(w.name, now, mid.nextindex - 1) # mid.file
           date == formatDateName(w.name, now)
       IN /\ w'.nexttime = IF after THEN getNextHour(now) ELSE w.nexttime
          /\ (after /\ differs /\ ~drv'.tfail) =>
               /\ w'.file.date = date
               /\ w'.nextindex = w'.file.idx + 1
               /\ \A i \in 0 .. w'.file.idx - 1 : fs[[date |-> date, idx |-> i]] >= w.MaxSize
               /\ fs[w'.file] < w.MaxSize
          /\ (after /\ differs /\ drv'.tfail) =>
               /\ w'.file = mid.file
               /\ w'.nextindex = 0
          /\ ~(after /\ differs) =>
               /\ w'.file = mid.file
               /\ w'.nextindex = mid.nextindex]_vars

\* a Write in a new hour moved the writer to the first segment of the new date
\* while the file that was open was still below the threshold
C18_Witness ==
  /\ drv.opened = <<w.file>>
  /\ drv.mid.file # w.file
  /\ w.file.date > drv.mid.file.date
  /\ w.file.idx = 0
  /\ fs[drv.mid.file] + Len(part1) < w.MaxSize

\* C19: the names the symlink callback was given during the construction of the
\* writer or during a Write are the files that the rotations of that call
\* opened, each once and in order, and the name it was given last is the name
\* of the open file.
C19_LinkCurrent ==
  /\ w.called = drv.opened
  /\ w.link = w.file

\* a Write rotated by size and the callback was given the new segment, after
\* an earlier rotation had failed
C19_Witness ==
  /\ drv.lines > 0 /\ drv.fails > 0
  /\ w.called = <<w.file>> /\ w.file.idx >= 1
  /\ w.link = w.file

\* the fields object of a line whose only fields are the caller's
CallerFields == SetLast(CaptureCaller(NewEntry(TRUE)).data, "}")

\* C20: every entry in the pool has an empty field buffer and a clear template
\* flag, and a line rendered by a call on the logger or on a context without
\* accumulated fields holds no fields but the caller's and no message bytes but
\* those of its own message.
C20_PoolClean ==
  /\ \A n \in pool : entries[n].data = <<>> /\ ~entries[n].logout
  /\ \A p \in Procs :
       (pc[p] \in {"put", "ret"} /\ call[p].op = "log" /\ LineOf(p) # <<>>
          /\ call[p].recv # "entry" /\ locked[LockPos(p)].user = 0) =>
         LET rec == locked[LockPos(p)]
             line == LineOf(p)
             k == IF rec.caller THEN 6 ELSE 5
         IN /\ IF rec.caller THEN line[5].b = part3 /\ line[6].b = CallerFields
                             ELSE line[5].b = part4
            /\ IF rec.msg = <<>> THEN Len(line) = k + 1 /\ line[k + 1].b = part7
                                 ELSE Len(line) = k + 3 /\ line[k + 2].b = writeString(rec.msg)

\* a call on the logger rendered a line on an entry that had been rendered and
\* put back before, while another rendered entry sits in the pool
C20_Witness ==
  \E p \in Procs :
    /\ pc[p] = "put" /\ call[p].op = "log" /\ call[p].reused
    /\ call[p].recv = "logger" /\ LineOf(p) # <<>>
    /\ locked[LockPos(p)].user = 0
    /\ pool # {}

====
